---- MODULE Spec2Model ----
(***************************************************************************)
(* Quadrature fallback for expectations (gpflow/expectations/quadratures.py)*)
(* and the trainable-variables bookkeeping of GPflow/misc.py.               *)
(*                                                                          *)
(* Python values are records carrying a `type` field; tensors are nested    *)
(* sequences (1-based, so Python row n is row n+1 here).                    *)
(***************************************************************************)
EXTENDS Integers, Sequences, FiniteSets, TLC

VARIABLES p, args, stack, outcome, log, mvncalls, resolved, finished,
          trainables, lastop, rin, rout

vars == <<p, args, stack, outcome, log, mvncalls, resolved, finished,
          trainables, lastop, rin, rout>>

quadVars == <<p, args, stack, outcome, log, mvncalls, resolved, finished>>
miscVars == <<trainables, lastop>>
resolverVars == <<rin, rout>>

----------------------------------------------------------------------------
(* Bounds *)

\* number of rows N of a kernel evaluation grid; a MarkovGaussian has N+1 steps
N == 2
\* input dimensionality D
D == 2
\* scale of the entries of a covariance tensor
MaxVal == 1
\* the explicit quadrature order a caller passes
MaxNghp == 1
\* nesting depth at which the dispatcher stops re-entering the specialization
MaxDepth == 3
\* number of TensorFlow variables
NumVars == 3

----------------------------------------------------------------------------
(* Program constants *)

DefaultNghpGaussian == 100
DefaultNghpMarkov == 40

----------------------------------------------------------------------------
(* Python values *)

None == [type |-> "NoneType", name |-> "None"]
IsNone(x) == x.type = "NoneType"

PyInt(n) == [type |-> "int", name |-> "int", val |-> n]

\* np.s_[:, :, None], np.s_[:, None, :] and the Ellipsis object
SliceTrailing == "[:, :, None]"
SliceLeading == "[:, None, :]"
Ellipsis == "..."
SliceNone == "None"

Returned(v) == [status |-> "returned", value |-> v]
Raised(e) == [status |-> "raised", exc |-> e]

----------------------------------------------------------------------------
(* Tensor operations *)

\* x[:-1] and x[1:] along the leading axis
DropLast(x) == SubSeq(x, 1, Len(x) - 1)
DropFirst(x) == SubSeq(x, 2, Len(x))

\* tf.concat((a, b), 1) of two rank-2 or rank-3 tensors: rows are joined
ConcatAxis1(a, b) == [n \in 1..Len(a) |-> a[n] \o b[n]]

\* tf.concat((a, b), 2) of two rank-3 tensors
ConcatAxis2(a, b) == [n \in 1..Len(a) |-> [i \in 1..Len(a[n]) |-> a[n][i] \o b[n][i]]]

\* tf.matrix_transpose: swaps the two trailing axes of a rank-3 tensor
MatrixTranspose(a) ==
  [n \in 1..Len(a) |->
     [i \in 1..Len(a[n][1]) |-> [j \in 1..Len(a[n]) |-> a[n][j][i]]]]

\* tf.matrix_diag: N x D vector of variances to N x D x D diagonal matrices
MatrixDiag(v) ==
  [n \in 1..Len(v) |->
     [i \in 1..Len(v[n]) |-> [j \in 1..Len(v[n]) |-> IF i = j THEN v[n][i] ELSE 0]]]

----------------------------------------------------------------------------
(* Inputs: distributions, objects, features, quadrature orders *)

\* a covariance b * min(i, j) (symmetric, positive semi-definite) ...
Base(b, i, j) == b * (IF i < j THEN i ELSE j)

\* ... disturbed by va at position a
Disturb(pos, a, va) == IF pos = a THEN va ELSE 0

\* mean with pairwise distinct entries, rows x D
Mean(rows) == [t \in 1..rows |-> [d \in 1..D |-> (t - 1) * D + d]]

\* Gaussian: mu N x D, cov N x D x D
Gaussians ==
  { [type |-> "Gaussian", mu |-> Mean(N),
     cov |-> [n \in 1..N |-> [i \in 1..D |-> [j \in 1..D |->
                Base(b, i, j) + Disturb(<<n, i, j>>, a, va)]]]] :
    b \in {0, MaxVal}, a \in (1..N) \X (1..D) \X (1..D), va \in {0, MaxVal} }

\* DiagonalGaussian: mu N x D, cov N x D (per-row variances)
DiagonalGaussians ==
  { [type |-> "DiagonalGaussian", mu |-> Mean(N),
     cov |-> [n \in 1..N |-> [i \in 1..D |->
                Base(b, i, i) + Disturb(<<n, i>>, a, va)]]] :
    b \in {0, MaxVal}, a \in (1..N) \X (1..D), va \in {0, MaxVal} }

\* MarkovGaussian: mu (N+1) x D, cov 2 x (N+1) x D x D; cov[1] are the marginal
\* covariances of the steps, cov[2] the cross-covariances of consecutive steps
MarkovGaussians ==
  { [type |-> "MarkovGaussian", mu |-> Mean(N + 1),
     cov |-> [s \in 1..2 |-> [t \in 1..(N + 1) |-> [i \in 1..D |-> [j \in 1..D |->
                (IF s = 1 THEN Base(b, i, j) ELSE 0)
                + Disturb(<<s, t, i, j>>, a, va)]]]]] :
    b \in {0, MaxVal}, a \in (1..2) \X (1..(N + 1)) \X (1..D) \X (1..D),
    va \in {0, MaxVal} }

Distributions == Gaussians \cup DiagonalGaussians \cup MarkovGaussians

Kernel(name) == [type |-> "Kernel", name |-> name]
MeanFunction(name) == [type |-> "MeanFunction", name |-> name]
Other(name) == [type |-> "object", name |-> name]
InducingFeature(name) == [type |-> "InducingFeature", name |-> name]

\* what a caller can pass in the first and in the second (object, feature) pair
Objects1 == {None, Kernel("k1"), MeanFunction("m1"), Other("x1")}
Objects2 == {None, Kernel("k2"), MeanFunction("m2"), Other("x2")}
Features1 == {None, InducingFeature("Z1")}
Features2 == {None, InducingFeature("Z2")}
Nghps == {None, PyInt(MaxNghp)}

----------------------------------------------------------------------------
(* Evaluator resolver *)

\* get_eval_func with the object's kind looked at before the feature
get_eval_func_kind_first(obj, feature, slice) ==
  LET sl == IF slice = SliceNone THEN Ellipsis ELSE slice IN
  IF obj.type = "MeanFunction"
    THEN Returned([fn |-> "obj(x)", feature |-> None, obj |-> obj, slice |-> sl])
    ELSE IF ~IsNone(feature)
           THEN IF feature.type # "InducingFeature" \/ obj.type # "Kernel"
                  THEN Raised("TypeError")
                  ELSE Returned([fn |-> "transpose(Kuf)", feature |-> feature,
                                 obj |-> obj, slice |-> sl])
           ELSE IF obj.type = "Kernel"
                  THEN Returned([fn |-> "obj", feature |-> None, obj |-> obj, slice |-> Ellipsis])
                  ELSE Raised("NotImplementedError")

\* get_eval_func without the test of line 28
get_eval_func_unchecked(obj, feature, slice) ==
  LET sl == IF slice = SliceNone THEN Ellipsis ELSE slice IN
  IF ~IsNone(feature)
    THEN Returned([fn |-> "transpose(Kuf)", feature |-> feature, obj |-> obj, slice |-> sl])
    ELSE IF obj.type = "MeanFunction"
           THEN Returned([fn |-> "obj(x)", feature |-> None, obj |-> obj, slice |-> sl])
           ELSE IF obj.type = "Kernel"
                  THEN Returned([fn |-> "obj", feature |-> None, obj |-> obj, slice |-> Ellipsis])
                  ELSE Raised("NotImplementedError")

\* get_eval_func(obj, feature, slice): the function of interest or the error raised
get_eval_func(obj, feature, slice) ==
  LET sl == IF slice = SliceNone THEN Ellipsis ELSE slice IN
  IF ~IsNone(feature)
    THEN IF feature.type # "InducingFeature" \/ obj.type # "Kernel"
           THEN Raised("TypeError")
           ELSE Returned([fn |-> "transpose(Kuf)", feature |-> feature, obj |-> obj, slice |-> sl])
    ELSE IF obj.type = "MeanFunction"
           THEN Returned([fn |-> "obj(x)", feature |-> None, obj |-> obj, slice |-> sl])
           ELSE IF obj.type = "Kernel"
                  THEN Returned([fn |-> "obj", feature |-> None, obj |-> obj, slice |-> Ellipsis])
                  ELSE Raised("NotImplementedError")

\* one use of get_eval_func inside an evaluation function, on input x, x1 or x2
Part(obj, feature, slice, input) ==
  [obj |-> obj, feature |-> feature, slice |-> slice, input |-> input]

ResolvePart(part) == get_eval_func(part.obj, part.feature, part.slice)

\* Calling an evaluation function: its parts are resolved in order and the
\* first error propagates.  `calls` lists the get_eval_func calls made.
InvokeEval(func) ==
  LET r1 == ResolvePart(func.parts[1]) IN
  IF r1.status = "raised"
    THEN [calls |-> <<func.parts[1]>>, out |-> r1]
    ELSE IF Len(func.parts) = 1
           THEN [calls |-> <<func.parts[1]>>, out |-> Returned(<<r1.value>>)]
           ELSE LET r2 == ResolvePart(func.parts[2]) IN
                [calls |-> <<func.parts[1], func.parts[2]>>,
                 out |-> IF r2.status = "raised" THEN r2
                         ELSE Returned(<<r1.value, r2.value>>)]

\* mvnquad(func, mu, cov, nghp): evaluates func at the quadrature nodes
mvnquad(func, mu, cov, nghp) ==
  LET ev == InvokeEval(func) IN
  [calls |-> ev.calls,
   out |-> IF ev.out.status = "raised" THEN ev.out
           ELSE Returned([op |-> "mvnquad", integrand |-> ev.out.value,
                          mu |-> mu, cov |-> cov, nghp |-> nghp])]

\* obj1.on_separate_dims(obj2): the outcomes the call can have
on_separate_dims(obj1, obj2) ==
  IF obj1.type # "Kernel" THEN {"AttributeError"}
  ELSE IF obj2.type # "Kernel" THEN {"AttributeError", "False", "True"}
  ELSE {"False", "True"}

----------------------------------------------------------------------------
(* Call frames of the two quadrature specializations *)

Frame(fn, obj1, feature1, obj2, feature2, nghp) ==
  [fn |-> fn, obj1 |-> obj1, feature1 |-> feature1, obj2 |-> obj2,
   feature2 |-> feature2, nghp |-> nghp, pc |-> "entry", warned |-> 0,
   locals |-> <<>>]

Top == stack[Len(stack)]
Running(fn, pc) == Len(stack) > 0 /\ Top.fn = fn /\ Top.pc = pc

\* the registry picks the specialization by the type of p
Specialization(dist) ==
  IF dist.type = "MarkovGaussian" THEN "MarkovGaussian" ELSE "Gaussian"

Bind(f, name, value) == [f EXCEPT !.locals = (name :> value) @@ f.locals]
Bound(f, name) == name \in DOMAIN f.locals

Done(f, out) == [fn |-> f.fn, level |-> Len(stack), warned |-> f.warned, out |-> out]

\* the frames of stk, innermost first, all ended by the same exception
RECURSIVE Unwind(_, _)
Unwind(stk, out) ==
  IF Len(stk) = 0 THEN <<>>
  ELSE <<[fn |-> stk[Len(stk)].fn, level |-> Len(stk),
          warned |-> stk[Len(stk)].warned, out |-> out]>>
       \o Unwind(SubSeq(stk, 1, Len(stk) - 1), out)

\* the top frame goes to pc with its locals updated
Goto(f, pc) ==
  /\ stack' = [stack EXCEPT ![Len(stack)] = [f EXCEPT !.pc = pc]]
  /\ UNCHANGED <<outcome, finished>>

\* the top frame raises: no frame handles exceptions, so every frame ends
Raise(exc) ==
  /\ stack' = <<>>
  /\ outcome' = Raised(exc)
  /\ finished' = finished \o Unwind(stack, Raised(exc))

\* the top frame returns v: to the caller waiting at line 70 or 71, or to the user
Return(v) ==
  /\ finished' = Append(finished, Done(Top, Returned(v)))
  /\ IF Len(stack) = 1
       THEN /\ stack' = <<>>
            /\ outcome' = Returned(v)
       ELSE LET caller == stack[Len(stack) - 1] IN
            /\ stack' = [SubSeq(stack, 1, Len(stack) - 1) EXCEPT ![Len(stack) - 1] =
                 IF caller.pc = "await1"
                   THEN [Bind(caller, "eKxz1", v) EXCEPT !.pc = "line71"]
                   ELSE [Bind(caller, "eKxz2", v) EXCEPT !.pc = "line72"]]
            /\ UNCHANGED outcome

\* the top frame calls mvnquad and returns what it returns
ReturnMvnquad(func, mu, cov, nghp) ==
  LET r == mvnquad(func, mu, cov, nghp) IN
  /\ mvncalls' = Append(mvncalls, [level |-> Len(stack), func |-> func, mu |-> mu,
                                    cov |-> cov, nghp |-> nghp])
  /\ resolved' = resolved \o r.calls
  /\ IF r.out.status = "raised" THEN Raise(r.out.exc) ELSE Return(r.out.value)

----------------------------------------------------------------------------
(* Entry *)

\* a specialization that forgets the diagnostic
logger_warn_silent(f) == f

\* the approximate-method diagnostic of lines 50-51 and 95-96
logger_warn(f) == [f EXCEPT !.warned = @ + 1]

\* a caller invokes the dispatcher; the registry selects the specialization
Call ==
  /\ outcome.status = "idle"
  /\ stack = <<>>
  /\ stack' = <<Frame(Specialization(p), args.obj1, args.feature1,
                      args.obj2, args.feature2, args.nghp)>>
  /\ outcome' = [status |-> "running"]
  /\ UNCHANGED <<p, args, log, mvncalls, resolved, finished, trainables, lastop, rin, rout>>

----------------------------------------------------------------------------
(* Gaussian / DiagonalGaussian specialization, lines 43-78 *)

\* lines 48-51: default order, then the warning
GaussianWarn ==
  /\ Running("Gaussian", "entry")
  /\ LET f == [Top EXCEPT !.nghp = IF IsNone(@) THEN PyInt(DefaultNghpGaussian) ELSE @]
         g == logger_warn(f)
     IN /\ log' = log + (g.warned - f.warned)
        /\ Goto(g, "line53")
  /\ UNCHANGED <<p, args, mvncalls, resolved, trainables, lastop, rin, rout>>

\* line 53 testing that both objects are missing
FirstObjectMissingBoth(f) == IsNone(f.obj1) /\ IsNone(f.obj2)

\* the test of line 53
FirstObjectMissing(f) == IsNone(f.obj1)

\* lines 53-54
GaussianCheckObj1 ==
  /\ Running("Gaussian", "line53")
  /\ IF FirstObjectMissing(Top)
       THEN Raise("NotImplementedError")
       ELSE Goto(Top, "line56")
  /\ UNCHANGED <<p, args, log, mvncalls, resolved, trainables, lastop, rin, rout>>

\* lines 56-63: the local function is named eval_fun in one branch, eval_func in the other
GaussianDefEval(f) ==
  IF IsNone(f.obj2)
    THEN Bind(f, "eval_fun",
              [parts |-> <<Part(f.obj1, f.feature1, SliceNone, "x")>>])
    ELSE Bind(f, "eval_func",
              [parts |-> <<Part(f.obj1, f.feature1, SliceTrailing, "x"),
                           Part(f.obj2, f.feature2, SliceLeading, "x")>>])

GaussianDefineEval ==
  /\ Running("Gaussian", "line56")
  /\ Goto(GaussianDefEval(Top), "line65")
  /\ UNCHANGED <<p, args, log, mvncalls, resolved, trainables, lastop, rin, rout>>

\* line 69
Shortcut(f, sep) == f.obj1.type = "Kernel" /\ f.obj2.type = "Kernel" /\ sep = "True"

\* lines 65-77
GaussianSelectCov ==
  /\ Running("Gaussian", "line65")
  /\ IF p.type = "DiagonalGaussian"
       THEN \E sep \in on_separate_dims(Top.obj1, Top.obj2) :
              IF sep = "AttributeError"
                THEN Raise("AttributeError")
                ELSE IF Shortcut(Top, sep)
                       THEN Goto(Bind(Top, "separate_dims", sep), "line70")
                       ELSE Goto(Bind(Bind(Top, "separate_dims", sep),
                                      "cov", MatrixDiag(p.cov)), "line78")
       ELSE Goto(Bind(Top, "cov", p.cov), "line78")
  /\ UNCHANGED <<p, args, log, mvncalls, resolved, trainables, lastop, rin, rout>>

\* quadrature_expectation(p, (obj, feature), nghp=nghp): the second pair is absent
quadrature_expectation(obj, feature, nghp) ==
  Frame(Specialization(p), obj, feature, None, None, nghp)

\* line 70 passing both pairs on
FirstPairJoint(f) == Frame(Specialization(p), f.obj1, f.feature1, f.obj2, f.feature2, f.nghp)

\* the arguments of the calls of lines 70 and 71
FirstPair(f) == quadrature_expectation(f.obj1, f.feature1, f.nghp)
SecondPair(f) == quadrature_expectation(f.obj2, f.feature2, f.nghp)

\* a call through the dispatcher: a more specific registered implementation
\* answers it, or it comes back to this specialization
Dispatch(callee, awaiting, name, next) ==
  \/ /\ Goto(Bind(Top, name, [op |-> "registered", obj |-> callee.obj1,
                              feature |-> callee.feature1, nghp |-> callee.nghp]), next)
  \/ /\ Len(stack) < MaxDepth
     /\ stack' = Append([stack EXCEPT ![Len(stack)] = [Top EXCEPT !.pc = awaiting]], callee)
     /\ UNCHANGED <<outcome, finished>>

\* line 70
GaussianFirstExpectation ==
  /\ Running("Gaussian", "line70")
  /\ Dispatch(FirstPair(Top), "await1", "eKxz1", "line71")
  /\ UNCHANGED <<p, args, log, mvncalls, resolved, trainables, lastop, rin, rout>>

\* line 71
GaussianSecondExpectation ==
  /\ Running("Gaussian", "line71")
  /\ Dispatch(SecondPair(Top), "await2", "eKxz2", "line72")
  /\ UNCHANGED <<p, args, log, mvncalls, resolved, trainables, lastop, rin, rout>>

\* line 72
GaussianOuterProduct ==
  /\ Running("Gaussian", "line72")
  /\ Return([op |-> "outer", left |-> Top.locals["eKxz1"], right |-> Top.locals["eKxz2"]])
  /\ UNCHANGED <<p, args, log, mvncalls, resolved, trainables, lastop, rin, rout>>

\* line 78: reading a local that was never bound raises UnboundLocalError
GaussianMvnquad ==
  /\ Running("Gaussian", "line78")
  /\ IF Bound(Top, "eval_func")
       THEN ReturnMvnquad(Top.locals["eval_func"], p.mu, Top.locals["cov"], Top.nghp)
       ELSE /\ Raise("UnboundLocalError")
            /\ UNCHANGED <<mvncalls, resolved>>
  /\ UNCHANGED <<p, args, log, trainables, lastop, rin, rout>>

----------------------------------------------------------------------------
(* MarkovGaussian specialization, lines 85-119 *)

\* lines 93-96
MarkovWarn ==
  /\ Running("MarkovGaussian", "entry")
  /\ LET f == [Top EXCEPT !.nghp = IF IsNone(@) THEN PyInt(DefaultNghpMarkov) ELSE @]
         g == logger_warn(f)
     IN /\ log' = log + (g.warned - f.warned)
        /\ Goto(g, "line98")
  /\ UNCHANGED <<p, args, mvncalls, resolved, trainables, lastop, rin, rout>>

\* line 101: p.mu[:-1], p.cov[0, :-1]
MarkovFirstInputs(dist) == [mu |-> DropLast(dist.mu), cov |-> DropLast(dist.cov[1])]

\* line 105 repeating the slices of line 101
MarkovSecondInputsAsFirst(dist) == [mu |-> DropLast(dist.mu), cov |-> DropLast(dist.cov[1])]

\* line 105: p.mu[1:], p.cov[0, 1:]
MarkovSecondInputs(dist) == [mu |-> DropFirst(dist.mu), cov |-> DropFirst(dist.cov[1])]

\* line 114
MarkovJointMu(dist) == ConcatAxis1(DropLast(dist.mu), DropFirst(dist.mu))

\* lines 115-117 without the transpose of line 116
MarkovJointCovNoTranspose(dist) ==
  LET cov_top == ConcatAxis2(DropLast(dist.cov[1]), DropLast(dist.cov[2]))
      cov_bottom == ConcatAxis2(DropLast(dist.cov[2]), DropFirst(dist.cov[1]))
  IN ConcatAxis1(cov_top, cov_bottom)

\* lines 115-117
MarkovJointCov(dist) ==
  LET cov_top == ConcatAxis2(DropLast(dist.cov[1]), DropLast(dist.cov[2]))
      cov_bottom == ConcatAxis2(MatrixTranspose(DropLast(dist.cov[2])), DropFirst(dist.cov[1]))
  IN ConcatAxis1(cov_top, cov_bottom)

\* lines 98-117: the evaluation function and the integration inputs
MarkovLocals(f) ==
  IF IsNone(f.obj2)
    THEN LET in == MarkovFirstInputs(p) IN
         Bind(Bind(Bind(f, "eval_func",
                        [parts |-> <<Part(f.obj1, f.feature1, SliceNone, "x")>>]),
                   "mu", in.mu), "cov", in.cov)
    ELSE IF IsNone(f.obj1)
      THEN LET in == MarkovSecondInputs(p) IN
           Bind(Bind(Bind(f, "eval_func",
                          [parts |-> <<Part(f.obj2, f.feature2, SliceNone, "x")>>]),
                     "mu", in.mu), "cov", in.cov)
      ELSE Bind(Bind(Bind(f, "eval_func",
                          [parts |-> <<Part(f.obj1, f.feature1, SliceTrailing, "x1"),
                                       Part(f.obj2, f.feature2, SliceLeading, "x2")>>]),
                     "mu", MarkovJointMu(p)), "cov", MarkovJointCov(p))

MarkovPrepare ==
  /\ Running("MarkovGaussian", "line98")
  /\ Goto(MarkovLocals(Top), "line119")
  /\ UNCHANGED <<p, args, log, mvncalls, resolved, trainables, lastop, rin, rout>>

\* line 119
MarkovMvnquad ==
  /\ Running("MarkovGaussian", "line119")
  /\ ReturnMvnquad(Top.locals["eval_func"], Top.locals["mu"], Top.locals["cov"], Top.nghp)
  /\ UNCHANGED <<p, args, log, trainables, lastop, rin, rout>>

----------------------------------------------------------------------------
(* Specification of the quadrature fallback *)

QuadInit ==
  /\ p \in Distributions
  /\ args \in [obj1 : Objects1, feature1 : Features1, obj2 : Objects2,
               feature2 : Features2, nghp : Nghps]
  /\ stack = <<>>
  /\ outcome = [status |-> "idle"]
  /\ log = 0
  /\ mvncalls = <<>>
  /\ resolved = <<>>
  /\ finished = <<>>

MiscIdle == trainables = <<>> /\ lastop = [op |-> "none"]
ResolverIdle == rin = [obj |-> None, feature |-> None, slice |-> SliceNone] /\ rout = [status |-> "idle"]

Init == QuadInit /\ MiscIdle /\ ResolverIdle

Next ==
  \/ Call
  \/ GaussianWarn
  \/ GaussianCheckObj1
  \/ GaussianDefineEval
  \/ GaussianSelectCov
  \/ GaussianFirstExpectation
  \/ GaussianSecondExpectation
  \/ GaussianOuterProduct
  \/ GaussianMvnquad
  \/ MarkovWarn
  \/ MarkovPrepare
  \/ MarkovMvnquad

Spec == Init /\ [][Next]_vars

\* a call that has started keeps running: nothing in it waits for anything
FairSpec == Spec /\ WF_vars(Next)

----------------------------------------------------------------------------
(* The evaluator resolver called on its own *)

ResolverObjects == Objects1 \cup Objects2
ResolverFeatures == Features1 \cup Features2 \cup {Other("notafeature")}
Slices == {SliceNone, Ellipsis, SliceTrailing, SliceLeading}

ResolverInit ==
  /\ rin \in [obj : ResolverObjects, feature : ResolverFeatures, slice : Slices]
  /\ rout = [status |-> "idle"]

Resolve ==
  /\ rout.status = "idle"
  /\ rout' = get_eval_func(rin.obj, rin.feature, rin.slice)
  /\ UNCHANGED <<rin, quadVars, miscVars>>

QuadIdle ==
  /\ p = [type |-> "none"]
  /\ args = [obj1 |-> None, feature1 |-> None, obj2 |-> None, feature2 |-> None,
             nghp |-> None]
  /\ stack = <<>>
  /\ outcome = [status |-> "off"]
  /\ log = 0
  /\ mvncalls = <<>>
  /\ resolved = <<>>
  /\ finished = <<>>

InitResolver == ResolverInit /\ QuadIdle /\ MiscIdle

NextResolver == Resolve

SpecResolver == InitResolver /\ [][NextResolver]_vars

----------------------------------------------------------------------------
(* Trainable variables of a graph, GPflow/misc.py *)

Variables == 1..NumVars
Graphs == {"default", "other"}
GraphArgs == {"None"} \cup Graphs

\* _get_graph: the default graph stands in for None
get_graph(graph) == IF graph = "None" THEN "default" ELSE graph

Contains(list, x) == \E i \in 1..Len(list) : list[i] = x

\* list.remove(x): drops the first item equal to x
ListRemove(list, x) ==
  LET i == CHOOSE k \in 1..Len(list) :
             list[k] = x /\ \A m \in 1..(k - 1) : list[m] # x
  IN SubSeq(list, 1, i - 1) \o SubSeq(list, i + 1, Len(list))

DuplicateFree(list) == \A i, j \in 1..Len(list) : list[i] = list[j] => i = j

\* the lists of at most n distinct variables
RECURSIVE Lists(_)
Lists(n) ==
  IF n = 0 THEN {<<>>}
  ELSE Lists(n - 1) \cup
       {Append(l, v) : l \in {m \in Lists(n - 1) : Len(m) = n - 1},
                       v \in Variables}

MiscInit ==
  /\ trainables \in [Graphs -> {l \in Lists(NumVars) : DuplicateFree(l)}]
  /\ lastop = [op |-> "none"]

\* line 53 without the membership test
AddAlways(list, variable) == TRUE

\* the test of line 53
AddNeeded(list, variable) == ~Contains(list, variable)

\* lines 51-54
add_to_trainables(variable, graph) ==
  LET g == get_graph(graph) IN
  /\ trainables' = [trainables EXCEPT ![g] =
                      IF AddNeeded(@, variable) THEN Append(@, variable) ELSE @]
  /\ lastop' = [op |-> "add", variable |-> variable, graph |-> g,
                before |-> trainables, raised |-> "none"]
  /\ UNCHANGED <<quadVars, resolverVars>>

\* the test of line 60
NotFound(list, variable) == ~Contains(list, variable)

\* lines 57-63
remove_from_trainables(variable, graph) ==
  LET g == get_graph(graph) IN
  /\ IF NotFound(trainables[g], variable)
       THEN /\ lastop' = [op |-> "remove", variable |-> variable, graph |-> g,
                          before |-> trainables, raised |-> "GPflowError"]
            /\ UNCHANGED trainables
       ELSE /\ trainables' = [trainables EXCEPT ![g] = ListRemove(@, variable)]
            /\ lastop' = [op |-> "remove", variable |-> variable, graph |-> g,
                          before |-> trainables, raised |-> "none"]
  /\ UNCHANGED <<quadVars, resolverVars>>

AddToTrainables == \E v \in Variables, g \in GraphArgs : add_to_trainables(v, g)
RemoveFromTrainables == \E v \in Variables, g \in GraphArgs : remove_from_trainables(v, g)

MiscNext ==
  \/ AddToTrainables
  \/ RemoveFromTrainables

InitMisc == MiscInit /\ QuadIdle /\ ResolverIdle

SpecMisc == InitMisc /\ [][MiscNext]_vars

----------------------------------------------------------------------------
(* Properties of the Gaussian / DiagonalGaussian specialization *)

IsDone == outcome.status \in {"returned", "raised"}
Started == outcome.status \in {"running", "returned", "raised"}
ToGaussian == p.type \in {"Gaussian", "DiagonalGaussian"}
ToMarkov == p.type = "MarkovGaussian"

\* the order the Gaussian specialization integrates with
GaussianOrder == IF IsNone(args.nghp) THEN PyInt(100) ELSE args.nghp
\* the order the MarkovGaussian specialization integrates with
MarkovOrder == IF IsNone(args.nghp) THEN PyInt(40) ELSE args.nghp

\* the dense covariance of a Gaussian or DiagonalGaussian p
DenseCov ==
  IF p.type = "DiagonalGaussian"
    THEN [n \in 1..N |-> [i \in 1..D |-> [j \in 1..D |->
            IF i = j THEN p.cov[n][i] ELSE 0]]]
    ELSE p.cov

\* C1: a Gaussian / DiagonalGaussian call with obj1 present and obj2 absent
\* ends having called mvnquad once, with the evaluator of (obj1, feature1)
\* alone, p.mu, the dense covariance and the quadrature order, and the call
\* itself does not fail before delegating: once the evaluation function has
\* been defined, the function that line 78 hands to mvnquad is that evaluator.
C1_SingleEvaluatorDelegates ==
  (ToGaussian /\ ~IsNone(args.obj1) /\ IsNone(args.obj2)) =>
     /\ (Len(stack) >= 1 /\ stack[1].pc \in {"line65", "line78"}) =>
          /\ Bound(stack[1], "eval_func")
          /\ stack[1].locals["eval_func"].parts =
               <<Part(args.obj1, args.feature1, SliceNone, "x")>>
     /\ IsDone =>
          /\ Len(mvncalls) = 1
          /\ mvncalls[1].func.parts = <<Part(args.obj1, args.feature1, SliceNone, "x")>>
          /\ mvncalls[1].mu = p.mu
          /\ mvncalls[1].cov = DenseCov
          /\ mvncalls[1].nghp = GaussianOrder

\* C2: a Gaussian / DiagonalGaussian call with obj1 absent raises
\* NotImplementedError, having resolved no evaluator, called mvnquad never
\* and made no recursive call.
C2_FirstObjectRequired ==
  (ToGaussian /\ IsNone(args.obj1) /\ Started) =>
     /\ mvncalls = <<>>
     /\ resolved = <<>>
     /\ Len(stack) <= 1
     /\ \A i \in 1..Len(stack) : stack[i].pc \in {"entry", "line53"}
     /\ Len(finished) <= 1
     /\ IsDone => outcome = Raised("NotImplementedError")

C2_Witness ==
  /\ ToGaussian /\ IsNone(args.obj1) /\ ~IsNone(args.obj2)
  /\ ~IsNone(args.feature1)
  /\ outcome = Raised("NotImplementedError")
  /\ log = 1

BothKernels == args.obj1.type = "Kernel" /\ args.obj2.type = "Kernel"

\* C3: for a DiagonalGaussian p with both objects present the shortcut (lines
\* 70-72, no mvnquad at this level) is taken exactly when both are Kernels and
\* obj1 reports separate dimensions; in every other case the call delegates to
\* mvnquad with the variances expanded to dense diagonal matrices; a full
\* Gaussian never takes the shortcut and passes p.cov unchanged.
C3_ShortcutOrDelegate ==
  (ToGaussian /\ ~IsNone(args.obj1) /\ ~IsNone(args.obj2)) =>
     /\ (Len(stack) >= 1 /\ stack[1].pc \in {"line70", "await1", "line71", "await2", "line72"}) =>
          /\ p.type = "DiagonalGaussian" /\ BothKernels
          /\ stack[1].locals["separate_dims"] = "True"
          /\ \A k \in 1..Len(mvncalls) : mvncalls[k].level # 1
     /\ (Len(stack) = 1 /\ stack[1].pc = "line78") =>
          /\ stack[1].locals["cov"] = DenseCov
          /\ p.type = "DiagonalGaussian" =>
               ~(BothKernels /\ stack[1].locals["separate_dims"] = "True")
     /\ (IsDone /\ ~(p.type = "DiagonalGaussian" /\ BothKernels)) =>
          /\ Len(mvncalls) = 1
          /\ mvncalls[1].level = 1
          /\ mvncalls[1].cov = DenseCov

\* C5: an invocation of either specialization has emitted the warning exactly
\* once as soon as it is past its first statement, nothing else has happened
\* before that, and no invocation ends without having emitted it.
C5_WarnsOncePerInvocation ==
  /\ \A i \in 1..Len(stack) :
       /\ stack[i].warned = (IF stack[i].pc = "entry" THEN 0 ELSE 1)
       /\ stack[i].pc = "entry" => stack[i].locals = <<>>
  /\ \A k \in 1..Len(finished) : finished[k].warned = 1
  /\ log = Len(finished) + Cardinality({i \in 1..Len(stack) : stack[i].pc # "entry"})
  /\ IsDone => log >= 1

C5_Witness ==
  /\ outcome = Raised("NotImplementedError")
  /\ ToGaussian /\ IsNone(args.obj1)
  /\ finished = <<[fn |-> "Gaussian", level |-> 1, warned |-> 1,
                   out |-> Raised("NotImplementedError")]>>

----------------------------------------------------------------------------
(* Properties of the MarkovGaussian specialization *)

Symmetric(m) == \A i, j \in 1..Len(m) : m[i][j] = m[j][i]

\* the block matrix [[A, C], [C^T, B]] entry by entry
Block(A, C, B) ==
  [i \in 1..(2 * D) |-> [j \in 1..(2 * D) |->
     IF i <= D
       THEN IF j <= D THEN A[i][j] ELSE C[i][j - D]
       ELSE IF j <= D THEN C[j][i - D] ELSE B[i - D][j - D]]]

\* C6: with both objects present the MarkovGaussian specialization hands
\* mvnquad, for each n, the mean mu[n] ++ mu[n+1] and the covariance
\* [[cov[0,n], cov[1,n]], [cov[1,n]^T, cov[0,n+1]]], which is symmetric
\* whenever the two marginal blocks are.
C6_MarkovJointInputs ==
  (ToMarkov /\ ~IsNone(args.obj1) /\ ~IsNone(args.obj2) /\ Len(mvncalls) >= 1) =>
     LET c == mvncalls[1] IN
     /\ Len(c.mu) = N /\ Len(c.cov) = N
     /\ \A n \in 1..N :
          /\ Len(c.mu[n]) = 2 * D
          /\ \A d \in 1..D : c.mu[n][d] = p.mu[n][d] /\ c.mu[n][D + d] = p.mu[n + 1][d]
          /\ c.cov[n] = Block(p.cov[1][n], p.cov[2][n], p.cov[1][n + 1])
          /\ (Symmetric(p.cov[1][n]) /\ Symmetric(p.cov[1][n + 1])) => Symmetric(c.cov[n])

C6_Witness ==
  /\ ToMarkov /\ ~IsNone(args.obj1) /\ ~IsNone(args.obj2)
  /\ Len(mvncalls) = 1
  /\ ~Symmetric(p.cov[2][1])
  /\ Symmetric(p.cov[1][1]) /\ Symmetric(p.cov[1][2]) /\ p.cov[1][1][1][1] > 0
  /\ Symmetric(mvncalls[1].cov[1])

\* C7: with exactly one object present the MarkovGaussian specialization
\* integrates that object's evaluator alone, in D dimensions: obj1 against the
\* steps 0..N-1 (mu[:-1], cov[0, :-1]), obj2 against the steps 1..N (mu[1:],
\* cov[0, 1:]); the cross-covariances cov[1] do not enter.
C7_MarkovSingleInputs ==
  (ToMarkov /\ (IsNone(args.obj1) # IsNone(args.obj2)) /\ Len(mvncalls) >= 1) =>
     LET c == mvncalls[1]
         shift == IF IsNone(args.obj2) THEN 0 ELSE 1
     IN
     /\ c.func.parts = <<IF IsNone(args.obj2)
                           THEN Part(args.obj1, args.feature1, SliceNone, "x")
                           ELSE Part(args.obj2, args.feature2, SliceNone, "x")>>
     /\ Len(c.mu) = N /\ Len(c.cov) = N
     /\ \A n \in 1..N :
          /\ c.mu[n] = p.mu[n + shift]
          /\ Len(c.mu[n]) = D
          /\ c.cov[n] = p.cov[1][n + shift]
          /\ Len(c.cov[n]) = D /\ \A i \in 1..D : Len(c.cov[n][i]) = D

C7_Witness ==
  /\ ToMarkov /\ IsNone(args.obj1) /\ args.obj2.type = "Kernel"
  /\ Len(mvncalls) = 1
  /\ p.cov[1][1] # p.cov[1][N + 1]
  /\ outcome.status = "returned"

\* C8 as stated: a MarkovGaussian call with both objects absent raises
\* NotImplementedError whatever feature1, feature2 and nghp are.
C8_BothAbsentNotImplemented ==
  (ToMarkov /\ IsNone(args.obj1) /\ IsNone(args.obj2) /\ IsDone) =>
     outcome = Raised("NotImplementedError")

\* C8 amended: a MarkovGaussian call with both objects absent never returns a
\* result; it raises NotImplementedError when feature1 is absent and TypeError
\* when feature1 is supplied, whatever feature2 and nghp are, and has emitted
\* the warning and entered mvnquad once by then.
C8_BothAbsentRaises ==
  (ToMarkov /\ IsNone(args.obj1) /\ IsNone(args.obj2) /\ IsDone) =>
     /\ outcome = Raised(IF IsNone(args.feature1) THEN "NotImplementedError" ELSE "TypeError")
     /\ Len(mvncalls) = 1
     /\ resolved = <<Part(None, args.feature1, SliceNone, "x")>>

C8_Witness ==
  /\ ToMarkov /\ IsNone(args.obj1) /\ IsNone(args.obj2)
  /\ ~IsNone(args.feature1) /\ ~IsNone(args.feature2)
  /\ outcome = Raised("TypeError")

----------------------------------------------------------------------------
(* The recursion of the shortcut *)

\* C9: the calls of lines 70 and 71 pass one (object, feature) pair, no second
\* pair, and the caller's order; a call so made never takes the shortcut, so
\* at most two invocations of the specialization are ever nested, and every
\* call ends with a result or an error.
C9_RecursionBounded ==
  /\ [](/\ Len(stack) <= 2
        /\ Len(stack) = 2 =>
             /\ stack[1].pc \in {"await1", "await2"}
             /\ IsNone(stack[2].obj2) /\ IsNone(stack[2].feature2)
             /\ stack[2].nghp = stack[1].nghp
             /\ stack[2].obj1 = (IF stack[1].pc = "await1" THEN stack[1].obj1 ELSE stack[1].obj2)
             /\ stack[2].feature1 =
                  (IF stack[1].pc = "await1" THEN stack[1].feature1 ELSE stack[1].feature2)
             /\ stack[2].pc \notin {"line70", "line71", "line72", "await1", "await2"})
  /\ <>(IsDone /\ stack = <<>>)

C9_Witness ==
  /\ Len(stack) = 2
  /\ stack[1].pc = "await2"
  /\ stack[2].pc = "line78"

----------------------------------------------------------------------------
(* Properties of the evaluator resolver *)

\* C4: get_eval_func raises TypeError whenever a feature is supplied and obj is
\* not a Kernel, whatever the slice; no evaluator is returned for such a pair.
C4_FeatureNeedsKernel ==
  (rout.status # "idle" /\ ~IsNone(rin.feature) /\ rin.obj.type # "Kernel") =>
     rout = Raised("TypeError")

C4_Witness ==
  /\ rout = Raised("TypeError")
  /\ rin.obj.type = "MeanFunction"
  /\ rin.feature.type = "InducingFeature"
  /\ rin.slice = SliceLeading

----------------------------------------------------------------------------
(* Properties of the trainable-variables collection *)

\* C10: the collection of every graph stays duplicate-free; adding a member
\* changes nothing; removing a non-member raises GPflowError and changes
\* nothing; a successful remove takes out that variable and nothing else.
C10_TrainablesDuplicateFree ==
  /\ \A g \in Graphs : DuplicateFree(trainables[g])
  /\ lastop.op # "none" =>
       LET before == lastop.before[lastop.graph]
           after == trainables[lastop.graph]
           member == \E i \in 1..Len(before) : before[i] = lastop.variable
       IN
       /\ \A g \in Graphs \ {lastop.graph} : trainables[g] = lastop.before[g]
       /\ lastop.op = "add" =>
            /\ lastop.raised = "none"
            /\ after = (IF member THEN before ELSE before \o <<lastop.variable>>)
       /\ lastop.op = "remove" =>
            /\ (lastop.raised = "GPflowError") = ~member
            /\ lastop.raised \in {"none", "GPflowError"}
            /\ ~member => after = before
            /\ member => after = SelectSeq(before, LAMBDA x : x # lastop.variable)

C10_Witness ==
  /\ lastop.op = "add"
  /\ \E i \in 1..Len(lastop.before[lastop.graph]) :
       lastop.before[lastop.graph][i] = lastop.variable
  /\ Len(trainables[lastop.graph]) = NumVars

====
